---- MODULE Spec2Model ----
(***************************************************************************)
(* A model of src/src/lib.rs: the worksheet-to-table conversion to_typst   *)
(* and its helpers (reference codec, dimension scanner, size resolver,     *)
(* merge resolver, style resolver, value extractor).                       *)
(*                                                                         *)
(* Text is a sequence of one-character strings.  A u32 is a pair           *)
(* <<hi, lo>> of 16-bit halves, so that 32-bit wrap-around is computed     *)
(* exactly without leaving the checker's integer range.                    *)
(***************************************************************************)
EXTENDS Integers, Sequences, FiniteSets, TLC

\* ------------------------------------------------------------------ bounds
MaxLetters == 7     \* longest letter run of a cell reference handed to the codec
MaxDigits == 10     \* longest digit run of a cell reference handed to the codec
ShortRun == 1       \* length of the other run when one run is long
MaxCol == 2         \* columns of the worksheet grid
MaxRow == 2         \* rows of the worksheet grid
MaxDims == 2        \* explicit column-width / row-height records of a worksheet
MaxCells == 2       \* cells of the collection handed to the dimension scanner alone
MaxMerges == 2      \* merge ranges of a worksheet, when the toggles are all on or all off
FewMerges == 1      \* merge ranges of a worksheet, when the toggles vary freely

\* ------------------------------------------------------------ text helpers
Alphabet == <<"A", "B", "C", "D", "E", "F", "G", "H", "I", "J", "K", "L", "M",
              "N", "O", "P", "Q", "R", "S", "T", "U", "V", "W", "X", "Y", "Z">>
DecDigits == <<"0", "1", "2", "3", "4", "5", "6", "7", "8", "9">>

IndexOf(seq, c) == CHOOSE i \in 1..Len(seq) : seq[i] = c
IsUpper(c) == \E i \in 1..Len(Alphabet) : Alphabet[i] = c
IsDigit(c) == \E i \in 1..Len(DecDigits) : DecDigits[i] = c

\* char::is_alphabetic on the characters the model uses (upper-case letters,
\* digits, ':' and '+'): only the letters are alphabetic.
is_alphabetic(c) == IsUpper(c)

\* `c as u32` for the characters the model uses.
CodePoint(c) ==
    IF IsUpper(c) THEN 64 + IndexOf(Alphabet, c)
    ELSE IF IsDigit(c) THEN 47 + IndexOf(DecDigits, c)
    ELSE IF c = ":" THEN 58
    ELSE 43

SeqsUpTo(S, n) == UNION {[1..k -> S] : k \in 0..n}

\* -------------------------------------------------------------- u32 values
Half == 2^16

\* acc * m + a on a u32 <<hi, lo>>, with the carry out of 32 bits.
MulAdd(acc, m, a) ==
    LET lo == acc[2] * m + a
        hi == acc[1] * m + (lo \div Half)
    IN  [val |-> <<hi % Half, lo % Half>>, carry |-> hi \div Half > 0]

\* A u32 that is known to be small, as an integer.
ToInt(v) == v[1] * Half + v[2]

\* --------------------------------------------------------- Reference Codec
\* column.chars().fold(0, |acc, c| acc * 26 + (c as u32 - 'A' as u32 + 1)).
\* `overflowed` records that some step left the 32 bits: a build with overflow
\* checks panics there, a build without them goes on with the wrapped value.
RECURSIVE column_fold(_, _, _)
column_fold(column, i, acc) ==
    IF i > Len(column) THEN acc
    ELSE LET s == MulAdd(acc.val, 26, CodePoint(column[i]) - CodePoint("A") + 1)
         IN  column_fold(column, i + 1,
                         [val |-> s.val, overflowed |-> acc.overflowed \/ s.carry])

\* The fold with zero-based letter values (A = 0): the "+ 1" left out.
RECURSIVE column_fold_zero_based(_, _, _)
column_fold_zero_based(column, i, acc) ==
    IF i > Len(column) THEN acc
    ELSE LET s == MulAdd(acc.val, 26, CodePoint(column[i]) - CodePoint("A"))
         IN  column_fold_zero_based(column, i + 1,
                         [val |-> s.val, overflowed |-> acc.overflowed \/ s.carry])

column_to_number_zero_based(column) ==
    column_fold_zero_based(column, 1, [val |-> <<0, 0>>, overflowed |-> FALSE])

column_to_number(column) ==
    column_fold(column, 1, [val |-> <<0, 0>>, overflowed |-> FALSE])

\* chars().take_while(pred) and chars().skip_while(pred)
RECURSIVE PrefixLen(_, _)
PrefixLen(s, i) ==
    IF i <= Len(s) /\ is_alphabetic(s[i]) THEN PrefixLen(s, i + 1) ELSE i - 1

take_while_alphabetic(s) == SubSeq(s, 1, PrefixLen(s, 1))
skip_while_alphabetic(s) == SubSeq(s, PrefixLen(s, 1) + 1, Len(s))

\* str::parse::<u32>(): an optional '+', then at least one digit, every
\* character a digit, and no step leaving the 32 bits; otherwise Err.
RECURSIVE parse_digits(_, _, _)
parse_digits(s, i, acc) ==
    IF i > Len(s) THEN [ok |-> TRUE, val |-> acc]
    ELSE IF ~IsDigit(s[i]) THEN [ok |-> FALSE, val |-> <<0, 0>>]
    ELSE LET step == MulAdd(acc, 10, CodePoint(s[i]) - CodePoint("0"))
         IN  IF step.carry THEN [ok |-> FALSE, val |-> <<0, 0>>]
             ELSE parse_digits(s, i + 1, step.val)

parse_u32(s) ==
    LET body == IF Len(s) > 0 /\ s[1] = "+" THEN Tail(s) ELSE s
    IN  IF Len(body) = 0 THEN [ok |-> FALSE, val |-> <<0, 0>>]
        ELSE parse_digits(body, 1, <<0, 0>>)

unwrap_or_zero(r) == IF r.ok THEN r.val ELSE <<0, 0>>

parse_cell_reference(cell_ref) ==
    LET col_str == take_while_alphabetic(cell_ref)
        row == unwrap_or_zero(parse_u32(skip_while_alphabetic(cell_ref)))
        col == column_to_number(col_str)
    IN  [col |-> col.val, row |-> row, overflowed |-> col.overflowed]

\* --------------------------------------------------------------- options
\* Option<T>: None is the empty set, Some(x) the singleton {x}.
None == {}
Some(x) == {x}
IsSome(o) == o /= {}
Unwrap(o) == CHOOSE x \in o : TRUE

\* ------------------------------------------------------ worksheet (library)
\* The text of a column number, as the spreadsheet library writes it
\* (bijective base 26), and of a row number (decimal).
RECURSIVE ColumnLetters(_)
ColumnLetters(n) ==
    IF n = 0 THEN <<>>
    ELSE ColumnLetters((n - 1) \div 26) \o <<Alphabet[((n - 1) % 26) + 1]>>

RECURSIVE DecimalText(_)
DecimalText(n) ==
    IF n < 10 THEN <<DecDigits[n + 1]>>
    ELSE DecimalText(n \div 10) \o <<DecDigits[(n % 10) + 1]>>

\* A cell is [col, row, raw_error, value, style]; col and row are the
\* library's own numbers, which the program reads only as text:
\* cell.get_coordinate().to_string().
CoordinateText(c, r) == ColumnLetters(c) \o DecimalText(r)
get_coordinate(cell) == CoordinateText(cell.col, cell.row)

\* worksheet.get_collection_by_row(&row_num)
get_collection_by_row(cells, row_num) ==
    SelectSeq(cells, LAMBDA cell : cell.row = row_num)

\* ---------------------------------------------------------- Dimension Scanner
RECURSIVE scan_cells(_, _, _)
scan_cells(cells, i, acc) ==
    IF i > Len(cells) THEN acc
    ELSE LET p == parse_cell_reference(get_coordinate(cells[i]))
             col_num == ToInt(p.col)
             row_num == ToInt(p.row)
         IN  scan_cells(cells, i + 1,
                        [max_col |-> IF col_num > acc.max_col THEN col_num ELSE acc.max_col,
                         max_row |-> IF row_num > acc.max_row THEN row_num ELSE acc.max_row])

\* The scan that keeps the last cell's column and row instead of the maxima.
RECURSIVE scan_cells_last(_, _, _)
scan_cells_last(cells, i, acc) ==
    IF i > Len(cells) THEN acc
    ELSE LET p == parse_cell_reference(get_coordinate(cells[i]))
         IN  scan_cells_last(cells, i + 1,
                             [max_col |-> ToInt(p.col), max_row |-> ToInt(p.row)])

get_table_dimensions_last(cells) ==
    LET m == scan_cells_last(cells, 1, [max_col |-> 0, max_row |-> 0])
    IN  IF m.max_col = 0 \/ m.max_row = 0
        THEN [ok |-> FALSE, err |-> "No data found in the worksheet",
              max_col |-> 0, max_row |-> 0]
        ELSE [ok |-> TRUE, err |-> "", max_col |-> m.max_col, max_row |-> m.max_row]

\* cells: worksheet.get_cell_collection(), in the order the library yields it.
get_table_dimensions(cells) ==
    LET m == scan_cells(cells, 1, [max_col |-> 0, max_row |-> 0])
    IN  IF m.max_col = 0 \/ m.max_row = 0
        THEN [ok |-> FALSE, err |-> "No data found in the worksheet",
              max_col |-> 0, max_row |-> 0]
        ELSE [ok |-> TRUE, err |-> "", max_col |-> m.max_col, max_row |-> m.max_row]

\* --------------------------------------------------------------- Size Resolver
\* dims: the explicit records [num, size] in the library's order; a record
\* whose 0-based slot lies beyond the array is skipped.
RECURSIVE apply_dimensions(_, _, _)
apply_dimensions(sizes, dims, i) ==
    IF i > Len(dims) THEN sizes
    ELSE LET idx == dims[i].num - 1
         IN  apply_dimensions(
                 IF idx < Len(sizes) THEN [sizes EXCEPT ![idx + 1] = dims[i].size]
                 ELSE sizes,
                 dims, i + 1)

\* The loop with the 1-based number used as the 0-based slot.
RECURSIVE apply_dimensions_one_based(_, _, _)
apply_dimensions_one_based(sizes, dims, i) ==
    IF i > Len(dims) THEN sizes
    ELSE LET idx == dims[i].num
         IN  apply_dimensions_one_based(
                 IF idx < Len(sizes) THEN [sizes EXCEPT ![idx + 1] = dims[i].size]
                 ELSE sizes,
                 dims, i + 1)

get_column_widths_one_based(dims, max_col, default_width) ==
    apply_dimensions_one_based([i \in 1..max_col |-> default_width], dims, 1)

get_column_widths(dims, max_col, default_width) ==
    apply_dimensions([i \in 1..max_col |-> default_width], dims, 1)

get_row_heights(dims, max_row, default_height) ==
    apply_dimensions([i \in 1..max_row |-> default_height], dims, 1)

\* -------------------------------------------------------------- Style Resolver
\* A cell's style is [alignment, borders, background, font], each an Option.
\* A colour is the text get_argb_with_theme resolves it to.
ArgbLen == 8

get_cell_alignment(cell) ==
    IF ~IsSome(cell.style.alignment) THEN None
    ELSE LET alignment == Unwrap(cell.style.alignment)
         IN  Some([horizontal |-> CASE alignment.horizontal = "Left" -> "left"
                                    [] alignment.horizontal = "Center" -> "center"
                                    [] alignment.horizontal = "Right" -> "right"
                                    [] OTHER -> "default",
                   vertical |-> CASE alignment.vertical = "Bottom" -> "bottom"
                                  [] alignment.vertical = "Center" -> "center"
                                  [] alignment.vertical = "Top" -> "top"
                                  [] OTHER -> "default"])

get_cell_border(cell) ==
    IF ~IsSome(cell.style.borders) THEN None
    ELSE LET border == Unwrap(cell.style.borders)
         IN  Some([left |-> border.left /= "None",
                   right |-> border.right /= "None",
                   top |-> border.top /= "None",
                   bottom |-> border.bottom /= "None"])

\* The alpha channel dropped from every resolution, 6-digit ones included.
strip_alpha_always(argb) == SubSeq(argb, 3, Len(argb))

\* if argb.len() == 8 { argb.chars().skip(2).collect() } else { argb.to_string() }
strip_alpha(argb) ==
    IF Len(argb) = ArgbLen THEN SubSeq(argb, 3, Len(argb)) ELSE argb

get_cell_bg_color(cell) ==
    IF ~IsSome(cell.style.background) THEN None
    ELSE LET argb == Unwrap(cell.style.background)
         IN  IF Len(argb) = 0 THEN Some(<<>>) ELSE Some(strip_alpha(argb))

get_cell_font_style(cell) ==
    IF ~IsSome(cell.style.font) THEN None
    ELSE LET font == Unwrap(cell.style.font)
         IN  Some([bold |-> font.bold,
                   italic |-> font.italic,
                   size |-> font.size,
                   color |-> IF Len(font.argb) = 0 THEN None
                             ELSE Some(strip_alpha(font.argb)),
                   underline |-> font.underline /= "None",
                   strike |-> font.strike])

\* The style of an emitted cell under the four toggles.
cell_style(cell, parse_alignment, parse_border, parse_bg_color, parse_font_style) ==
    IF parse_alignment \/ parse_font_style
    THEN Some([alignment |-> IF parse_alignment THEN get_cell_alignment(cell) ELSE None,
               border |-> IF parse_border THEN get_cell_border(cell) ELSE None,
               color |-> IF parse_bg_color THEN get_cell_bg_color(cell) ELSE None,
               font |-> IF parse_font_style THEN get_cell_font_style(cell) ELSE None])
    ELSE None

\* -------------------------------------------------------------- Merge Resolver
\* range.split(':'): the parts between the colons.
RECURSIVE split_colon(_, _, _)
split_colon(text, i, part) ==
    IF i > Len(text) THEN <<part>>
    ELSE IF text[i] = ":" THEN <<part>> \o split_colon(text, i + 1, <<>>)
    ELSE split_colon(text, i + 1, Append(part, text[i]))

parse_merge_range(range) ==
    LET parts == split_colon(range, 1, <<>>)
    IN  <<parts[1], parts[2]>>

\* A merge range is [c1, r1, c2, r2]; the program reads it only as text:
\* merge_cell.get_range().to_string().
get_range(m) == CoordinateText(m.c1, m.r1) \o <<":">> \o CoordinateText(m.c2, m.r2)

\* One pass of the loop over worksheet.get_merge_cells().
merged_cell(range) ==
    LET ends == parse_merge_range(range)
        s == parse_cell_reference(ends[1])
        e == parse_cell_reference(ends[2])
    IN  [range |-> range,
         start |-> [row |-> ToInt(s.row), column |-> ToInt(s.col)],
         end |-> [row |-> ToInt(e.row), column |-> ToInt(e.col)]]

\* The test that leaves out the exemption of the start cell.
is_merged_no_anchor(merged_cells, row_num, col_num) ==
    \E i \in 1..Len(merged_cells) :
        LET mc == merged_cells[i]
        IN  /\ row_num >= mc.start.row
            /\ row_num <= mc.end.row
            /\ col_num >= mc.start.column
            /\ col_num <= mc.end.column

\* The test that takes the first range alone.
is_merged_first_only(merged_cells, row_num, col_num) ==
    \E i \in 1..(IF Len(merged_cells) > 0 THEN 1 ELSE 0) :
        LET mc == merged_cells[i]
        IN  /\ row_num >= mc.start.row
            /\ row_num <= mc.end.row
            /\ col_num >= mc.start.column
            /\ col_num <= mc.end.column
            /\ ~(row_num = mc.start.row /\ col_num = mc.start.column)

is_merged(merged_cells, row_num, col_num) ==
    \E i \in 1..Len(merged_cells) :
        LET mc == merged_cells[i]
        IN  /\ row_num >= mc.start.row
            /\ row_num <= mc.end.row
            /\ col_num >= mc.start.column
            /\ col_num <= mc.end.column
            /\ ~(row_num = mc.start.row /\ col_num = mc.start.column)

\* ------------------------------------------------------------- Value Extractor
\* An error message is [text, cell]: the fixed words and, for a cell error,
\* the cell's address.
\* The extractor that never looks at the raw value's error flag.
cell_value_unchecked(cell) ==
    [ok |-> TRUE, err |-> [text |-> "", cell |-> <<>>], value |-> cell.value]

cell_value(cell) ==
    IF cell.raw_error
    THEN [ok |-> FALSE, err |-> [text |-> "Error in cell", cell |-> get_coordinate(cell)],
          value |-> <<>>]
    ELSE [ok |-> TRUE, err |-> [text |-> "", cell |-> <<>>], value |-> cell.value]

\* ------------------------------------------------------------- Table Assembler
\* col_cell_map: slot col holds the row's cell whose reference parses to col.
RECURSIVE fill_col_cell_map(_, _, _)
fill_col_cell_map(map, row, i) ==
    IF i > Len(row) THEN map
    ELSE LET col_num == ToInt(parse_cell_reference(get_coordinate(row[i])).col)
         IN  fill_col_cell_map([map EXCEPT ![col_num] = Some(row[i])], row, i + 1)

\* The column loop of one row, from col_num on: the cells pushed, or the
\* first cell error met.
RECURSIVE row_cells(_, _, _, _, _, _)
row_cells(col_cell_map, merged_cells, row_num, col_num, toggles, acc) ==
    IF col_num > Len(col_cell_map) THEN [ok |-> TRUE, cells |-> acc,
                                         err |-> [text |-> "", cell |-> <<>>]]
    ELSE IF is_merged(merged_cells, row_num, col_num) \/ ~IsSome(col_cell_map[col_num])
    THEN row_cells(col_cell_map, merged_cells, row_num, col_num + 1, toggles, acc)
    ELSE LET cell == Unwrap(col_cell_map[col_num])
             style == cell_style(cell, toggles.alignment, toggles.border,
                                 toggles.bg_color, toggles.font_style)
             v == cell_value(cell)
         IN  IF ~v.ok THEN [ok |-> FALSE, cells |-> <<>>, err |-> v.err]
             ELSE row_cells(col_cell_map, merged_cells, row_num, col_num + 1, toggles,
                            Append(acc, [value |-> v.value, column |-> col_num,
                                         style |-> style]))

\* The column loop that passes over a cell error and goes on.
RECURSIVE row_cells_best_effort(_, _, _, _, _, _)
row_cells_best_effort(col_cell_map, merged_cells, row_num, col_num, toggles, acc) ==
    IF col_num > Len(col_cell_map) THEN [ok |-> TRUE, cells |-> acc,
                                         err |-> [text |-> "", cell |-> <<>>]]
    ELSE IF is_merged(merged_cells, row_num, col_num) \/ ~IsSome(col_cell_map[col_num])
    THEN row_cells_best_effort(col_cell_map, merged_cells, row_num, col_num + 1,
                               toggles, acc)
    ELSE LET cell == Unwrap(col_cell_map[col_num])
             style == cell_style(cell, toggles.alignment, toggles.border,
                                 toggles.bg_color, toggles.font_style)
             v == cell_value(cell)
         IN  IF ~v.ok
             THEN row_cells_best_effort(col_cell_map, merged_cells, row_num,
                                        col_num + 1, toggles, acc)
             ELSE row_cells_best_effort(col_cell_map, merged_cells, row_num,
                                        col_num + 1, toggles,
                                        Append(acc, [value |-> v.value,
                                                     column |-> col_num,
                                                     style |-> style]))

row_data_best_effort(cells, merged_cells, row_num, max_col, toggles) ==
    row_cells_best_effort(
        fill_col_cell_map([c \in 1..max_col |-> None],
                          get_collection_by_row(cells, row_num), 1),
        merged_cells, row_num, 1, toggles, <<>>)

\* One pass of the row loop: the row's cells, or the cell error that ends
\* the call.
row_data(cells, merged_cells, row_num, max_col, toggles) ==
    row_cells(
        fill_col_cell_map([c \in 1..max_col |-> None],
                          get_collection_by_row(cells, row_num), 1),
        merged_cells, row_num, 1, toggles, <<>>)

\* The push of an assembled row that keeps empty rows too.
push_row_always(rows, row_num, cells) ==
    Append(rows, [row_number |-> row_num, cells |-> cells])

\* if !row_data.cells.is_empty() { table_data.rows.push(row_data) }
push_row(rows, row_num, cells) ==
    IF Len(cells) > 0 THEN Append(rows, [row_number |-> row_num, cells |-> cells])
    ELSE rows

\* str::parse::<bool>()
parse_bool(text) ==
    [ok |-> text \in {"true", "false"}, val |-> text = "true"]

\* ------------------------------------------------------------------- state
VARIABLES
    cell_ref,          \* codec: the reference text handed to parse_cell_reference
    overflow_checks,   \* codec: whether the build traps integer overflow
    ref_out,           \* codec: the call's outcome: none yet, ok (col, row), or panic
    color_cell,        \* colours: the cell whose colours are resolved
    bg_out,            \* colours: get_cell_bg_color's result, once called
    font_out,          \* colours: get_cell_font_style's result, once called
    size_dims,         \* sizes: the explicit column or row records
    size_max,          \* sizes: max_col or max_row
    size_default,      \* sizes: the sheet's default width or height
    size_out,          \* sizes: the array returned, and for which axis
    st_cell,           \* styles: the cell being emitted
    st_toggles,        \* styles: the four decoded toggles
    st_out,            \* styles: the cell's style entry, once built
    dim_cells,         \* scanner: the worksheet's cell collection
    dim_out,           \* scanner: get_table_dimensions' result, once called
    pc,                \* to_typst: the stage the call is at
    book,              \* to_typst: what read_reader made of the bytes
    in_index,          \* to_typst: the sheet_index buffer, once decoded
    in_toggles,        \* to_typst: the four toggle buffers, once decoded
    sheet_index,       \* to_typst: local sheet_index
    toggles,           \* to_typst: locals parse_alignment .. parse_font_style
    sheet,             \* to_typst: local worksheet, once found
    max_col,           \* to_typst: local max_col
    max_row,           \* to_typst: local max_row
    table_data,        \* to_typst: local table_data
    row_num,           \* to_typst: the row loop's row_num
    serialized,        \* to_typst: what toml::to_string made of table_data
    result             \* to_typst: the value returned, once the call has ended

refVars == <<cell_ref, overflow_checks, ref_out>>
colorVars == <<color_cell, bg_out, font_out>>
sizeVars == <<size_dims, size_max, size_default, size_out>>
styleVars == <<st_cell, st_toggles, st_out>>
dimVars == <<dim_cells, dim_out>>
pipeVars == <<pc, book, in_index, in_toggles, sheet_index, toggles, sheet,
              max_col, max_row, table_data, row_num, serialized, result>>
vars == <<refVars, colorVars, sizeVars, styleVars, dimVars, pipeVars>>

\* ---------------------------------------------------------- sample values
NoStyle == [alignment |-> None, borders |-> None, background |-> None, font |-> None]

SampleArgb == <<"F", "F", "F", "F", "0", "0", "0", "0">>

SampleFont(argb) ==
    [bold |-> TRUE, italic |-> FALSE, size |-> 11, argb |-> argb,
     underline |-> "Single", strike |-> FALSE]

FullStyle ==
    [alignment |-> Some([horizontal |-> "Center", vertical |-> "Top"]),
     borders |-> Some([left |-> "Thin", right |-> "None", top |-> "None",
                       bottom |-> "Thin"]),
     background |-> Some(SampleArgb),
     font |-> Some(SampleFont(SampleArgb))]

\* The cell at column c, row r: its value is its own position.
MakeCell(c, r, raw_error, style) ==
    [col |-> c, row |-> r, raw_error |-> raw_error, value |-> <<"v", c, r>>,
     style |-> style]

NoCell == MakeCell(1, 1, FALSE, NoStyle)
NotCalled == [done |-> FALSE, v |-> None]

\* --------------------------------------------------------- idle components
ColorIdle == color_cell = NoCell /\ bg_out = NotCalled /\ font_out = NotCalled
SizeIdle == /\ size_dims = <<>>
            /\ size_max = 1
            /\ size_default = 9
            /\ size_out = [axis |-> "none", sizes |-> <<>>]
StyleIdle == /\ st_cell = NoCell
             /\ st_toggles = [alignment |-> FALSE, border |-> FALSE,
                              bg_color |-> FALSE, font_style |-> FALSE]
             /\ st_out = NotCalled
DimIdle == dim_cells = <<>> /\ dim_out = [done |-> FALSE, ok |-> FALSE, err |-> "",
                                           max_col |-> 0, max_row |-> 0]

NoWorksheet == [cells |-> <<>>, merges |-> <<>>, col_dims |-> <<>>, row_dims |-> <<>>,
                default_width |-> 9, default_height |-> 15]
NoTable == [dimensions |-> [columns |-> <<>>, rows |-> <<>>,
                            max_columns |-> None, max_rows |-> None],
            rows |-> <<>>, merged_cells |-> <<>>]
NoMessage == [text |-> "", cell |-> <<>>]
AllOff == [alignment |-> FALSE, border |-> FALSE, bg_color |-> FALSE,
           font_style |-> FALSE]

\* The state of a call of to_typst that has not read anything yet.
PipeStart == /\ pc = "read"
             /\ book = [read |-> FALSE, ok |-> FALSE, sheets |-> 0]
             /\ in_index = <<>>
             /\ in_toggles = <<"", "", "", "">>
             /\ sheet_index = 0
             /\ toggles = AllOff
             /\ sheet = [found |-> FALSE, ws |-> NoWorksheet]
             /\ max_col = 0
             /\ max_row = 0
             /\ table_data = NoTable
             /\ row_num = 0
             /\ serialized = "no"
             /\ result = [kind |-> "none", msg |-> NoMessage, data |-> None]
PipeIdle == PipeStart

\* ------------------------------------------------------- codec: the inputs
LetterSample == {"A", "Z"}
DigitSample == {"0", "9"}

\* A letter run followed by a digit run, or by a digit run with a letter after
\* it (a malformed numeric run).  One of the two runs is short.
RefTexts ==
    LET long_letters == SeqsUpTo(LetterSample, MaxLetters)
        short_letters == SeqsUpTo(LetterSample, ShortRun)
        long_digits == SeqsUpTo(DigitSample, MaxDigits)
        short_digits == SeqsUpTo(DigitSample, ShortRun)
        bad_tails == {d \o <<"A">> : d \in short_digits \ {<<>>}}
    IN  {l \o d : l \in long_letters, d \in short_digits \cup bad_tails}
        \cup {l \o d : l \in short_letters, d \in long_digits}

NoRef == [status |-> "none", col |-> <<0, 0>>, row |-> <<0, 0>>]

RefIdle == /\ cell_ref = <<>>
           /\ overflow_checks = FALSE
           /\ ref_out = NoRef

RefInit == /\ cell_ref \in RefTexts
           /\ overflow_checks \in BOOLEAN
           /\ ref_out = NoRef
           /\ ColorIdle /\ SizeIdle /\ StyleIdle /\ DimIdle /\ PipeIdle

\* One call of parse_cell_reference.
ParseRef ==
    /\ ref_out.status = "none"
    /\ LET r == parse_cell_reference(cell_ref)
       IN  ref_out' = IF r.overflowed /\ overflow_checks
                      THEN [status |-> "panic", col |-> <<0, 0>>, row |-> <<0, 0>>]
                      ELSE [status |-> "ok", col |-> r.col, row |-> r.row]
    /\ UNCHANGED <<cell_ref, overflow_checks>>
    /\ UNCHANGED <<colorVars, sizeVars, styleVars, dimVars, pipeVars>>

RefNext == ParseRef

SpecRef == RefInit /\ [][RefNext]_vars

\* ---------------------------------------------- codec: the expected values
\* Numbers of any size, as <<hi, lo>> with lo below 2^16 and hi unbounded.
WideAdd(a, b) == LET lo == a[2] + b[2] IN <<a[1] + b[1] + (lo \div Half), lo % Half>>
WideScale(a, k) == LET lo == a[2] * k IN <<a[1] * k + (lo \div Half), lo % Half>>

RECURSIVE WidePow(_, _)
WidePow(b, n) == IF n = 0 THEN <<0, 1>> ELSE WideScale(WidePow(b, n - 1), b)

\* The positional value of digit values ds in the given base:
\* the sum of ds[i] * base^(Len(ds) - i).
RECURSIVE PositionalValue(_, _, _)
PositionalValue(ds, base, i) ==
    IF i > Len(ds) THEN <<0, 0>>
    ELSE WideAdd(WideScale(WidePow(base, Len(ds) - i), ds[i]),
                 PositionalValue(ds, base, i + 1))

FitsU32(w) == w[1] < Half

RefLetters == take_while_alphabetic(cell_ref)
RefTail == skip_while_alphabetic(cell_ref)

\* Bijective base 26: A = 1 .. Z = 26, AA = 27.
BijectiveValue(letters) ==
    PositionalValue([i \in 1..Len(letters) |-> IndexOf(Alphabet, letters[i])], 26, 1)

IsDigitRun(s) == \A i \in 1..Len(s) : IsDigit(s[i])
DecimalValue(s) ==
    PositionalValue([i \in 1..Len(s) |-> IndexOf(DecDigits, s[i]) - 1], 10, 1)

\* The row the claim expects: the decimal value of a digit run that a u32
\* holds, 0 for an empty or malformed run.
ExpectedRow ==
    IF Len(RefTail) > 0 /\ IsDigitRun(RefTail) /\ FitsU32(DecimalValue(RefTail))
    THEN DecimalValue(RefTail)
    ELSE <<0, 0>>

HexSample == {"0", "a", "F"}
LowerHex == {"0", "1", "2", "3", "4", "5", "6", "7", "8", "9",
             "a", "b", "c", "d", "e", "f"}

\* What get_argb_with_theme resolves to: nothing, 6 digits or 8 digits.
ArgbTexts == {<<>>} \cup [1..(ArgbLen - 2) -> HexSample] \cup [1..ArgbLen -> HexSample]

ColorCells ==
    {MakeCell(1, 1, FALSE, NoStyle)}
    \cup {MakeCell(1, 1, FALSE,
                   [NoStyle EXCEPT !.background = Some(a), !.font = Some(SampleFont(a))])
          : a \in ArgbTexts}

ColorInit == /\ color_cell \in ColorCells
             /\ bg_out = NotCalled
             /\ font_out = NotCalled
             /\ RefIdle /\ SizeIdle /\ StyleIdle /\ DimIdle /\ PipeIdle

GetCellBgColor ==
    /\ ~bg_out.done
    /\ bg_out' = [done |-> TRUE, v |-> get_cell_bg_color(color_cell)]
    /\ UNCHANGED <<color_cell, font_out, refVars, sizeVars, styleVars, dimVars, pipeVars>>

GetCellFontStyle ==
    /\ ~font_out.done
    /\ font_out' = [done |-> TRUE, v |-> get_cell_font_style(color_cell)]
    /\ UNCHANGED <<color_cell, bg_out, refVars, sizeVars, styleVars, dimVars, pipeVars>>

ColorNext == GetCellBgColor \/ GetCellFontStyle

SpecColor == ColorInit /\ [][ColorNext]_vars

\* The colour strings present in the two results.
ColorStrings ==
    (IF bg_out.done THEN bg_out.v ELSE {})
    \cup (IF font_out.done /\ IsSome(font_out.v) THEN Unwrap(font_out.v).color ELSE {})

SizeRecords ==
    [num : 1..((IF MaxCol > MaxRow THEN MaxCol ELSE MaxRow) + 1), size : {12, 30}]

SizeInit == /\ size_dims \in SeqsUpTo(SizeRecords, MaxDims)
            /\ size_max \in 1..(IF MaxCol > MaxRow THEN MaxCol ELSE MaxRow)
            /\ size_default \in {9, 12}
            /\ size_out = [axis |-> "none", sizes |-> <<>>]
            /\ RefIdle /\ ColorIdle /\ StyleIdle /\ DimIdle /\ PipeIdle

GetColumnWidths ==
    /\ size_out.axis = "none"
    /\ size_max <= MaxCol
    /\ size_out' = [axis |-> "columns",
                    sizes |-> get_column_widths(size_dims, size_max, size_default)]
    /\ UNCHANGED <<size_dims, size_max, size_default>>
    /\ UNCHANGED <<refVars, colorVars, styleVars, dimVars, pipeVars>>

GetRowHeights ==
    /\ size_out.axis = "none"
    /\ size_max <= MaxRow
    /\ size_out' = [axis |-> "rows",
                    sizes |-> get_row_heights(size_dims, size_max, size_default)]
    /\ UNCHANGED <<size_dims, size_max, size_default>>
    /\ UNCHANGED <<refVars, colorVars, styleVars, dimVars, pipeVars>>

SizeNext == GetColumnWidths \/ GetRowHeights

SpecSize == SizeInit /\ [][SizeNext]_vars

\* The records that name index i, by position in the list.
RecordsFor(i) == {k \in 1..Len(size_dims) : size_dims[k].num = i}
LastOf(S) == CHOOSE k \in S : \A j \in S : j <= k

\* C6: the array has length max; slot i-1 holds the explicit size of index i
\* when a record names i (the last such record), the default otherwise;
\* records naming an index beyond max change nothing.
C6_SizeArrays ==
    size_out.axis /= "none" =>
        /\ Len(size_out.sizes) = size_max
        /\ \A i \in 1..size_max :
              size_out.sizes[i] =
                  IF RecordsFor(i) = {} THEN size_default
                  ELSE size_dims[LastOf(RecordsFor(i))].size

\* An override inside the array and one beyond it: the first is applied, the
\* second dropped, the remaining slot keeps the default.
C6_Witness ==
    /\ size_out.axis = "columns"
    /\ size_max = 2
    /\ size_default = 9
    /\ size_dims = <<[num |-> 3, size |-> 30], [num |-> 2, size |-> 12]>>
    /\ size_out.sizes = <<9, 12>>

\* ====================================================== styles: the calls
StyleCells ==
    {MakeCell(1, 1, FALSE, [alignment |-> a, borders |-> b, background |-> g, font |-> f])
     : a \in {None, Some([horizontal |-> "Left", vertical |-> "Center"]),
              Some([horizontal |-> "General", vertical |-> "Justify"])},
       b \in {None, Some([left |-> "Thin", right |-> "None", top |-> "None",
                          bottom |-> "Double"])},
       g \in {None, Some(SampleArgb), Some(<<>>)},
       f \in {None, Some(SampleFont(SampleArgb))}}

StyleInit == /\ st_cell \in StyleCells
             /\ st_toggles \in [alignment : BOOLEAN, border : BOOLEAN,
                                bg_color : BOOLEAN, font_style : BOOLEAN]
             /\ st_out = NotCalled
             /\ RefIdle /\ ColorIdle /\ SizeIdle /\ DimIdle /\ PipeIdle

\* The style entry of one emitted cell.
BuildCellStyle ==
    /\ ~st_out.done
    /\ st_out' = [done |-> TRUE,
                  v |-> cell_style(st_cell, st_toggles.alignment, st_toggles.border,
                                   st_toggles.bg_color, st_toggles.font_style)]
    /\ UNCHANGED <<st_cell, st_toggles, refVars, colorVars, sizeVars, dimVars, pipeVars>>

StyleNext == BuildCellStyle

SpecStyle == StyleInit /\ [][StyleNext]_vars

\* A field of the style entry; absent when the entry itself is absent.
StyleField(name) == IF IsSome(st_out.v) THEN Unwrap(st_out.v)[name] ELSE None

\* C5: each of the four style fields is computed iff its own toggle is on,
\* independently of the other three, and is absent when its toggle is off.
C5_AsStated ==
    st_out.done =>
        /\ StyleField("alignment") =
               IF st_toggles.alignment THEN get_cell_alignment(st_cell) ELSE None
        /\ StyleField("border") =
               IF st_toggles.border THEN get_cell_border(st_cell) ELSE None
        /\ StyleField("color") =
               IF st_toggles.bg_color THEN get_cell_bg_color(st_cell) ELSE None
        /\ StyleField("font") =
               IF st_toggles.font_style THEN get_cell_font_style(st_cell) ELSE None

\* ===================================================== scanner: the calls
DimCoords == {1, 2, 26, 27} \X {1, 9, 10, 11}

\* Cell collections: distinct cells, in any order.
DimCollections ==
    {cs \in SeqsUpTo({MakeCell(p[1], p[2], FALSE, NoStyle) : p \in DimCoords}, MaxCells) :
        \A i, j \in 1..Len(cs) : i /= j => cs[i] /= cs[j]}

DimInit == /\ dim_cells \in DimCollections
           /\ dim_out = [done |-> FALSE, ok |-> FALSE, err |-> "",
                         max_col |-> 0, max_row |-> 0]
           /\ RefIdle /\ ColorIdle /\ SizeIdle /\ StyleIdle /\ PipeIdle

GetTableDimensions ==
    /\ ~dim_out.done
    /\ LET d == get_table_dimensions(dim_cells)
       IN  dim_out' = [done |-> TRUE, ok |-> d.ok, err |-> d.err,
                       max_col |-> d.max_col, max_row |-> d.max_row]
    /\ UNCHANGED <<dim_cells, refVars, colorVars, sizeVars, styleVars, pipeVars>>

DimNext == GetTableDimensions

SpecDims == DimInit /\ [][DimNext]_vars

SetMax(S) == CHOOSE m \in S : \A x \in S : x <= m

\* C2: get_table_dimensions returns the largest column and the largest row
\* over the cells of the collection, both at least 1, and fails with "No data
\* found in the worksheet" exactly when the collection is empty.
C2_TableDimensions ==
    dim_out.done =>
        LET cols == {dim_cells[i].col : i \in 1..Len(dim_cells)}
            rows == {dim_cells[i].row : i \in 1..Len(dim_cells)}
        IN  /\ dim_out.ok <=> Len(dim_cells) > 0
            /\ ~dim_out.ok => dim_out.err = "No data found in the worksheet"
            /\ dim_out.ok => /\ dim_out.max_col = SetMax(cols)
                             /\ dim_out.max_row = SetMax(rows)
                             /\ dim_out.max_col >= 1
                             /\ dim_out.max_row >= 1

\* Z9 scanned before AA1: the maxima come from different cells.
C2_Witness ==
    /\ dim_out.done /\ dim_out.ok
    /\ Len(dim_cells) = 2
    /\ dim_cells[1].col = 26 /\ dim_cells[1].row = 9
    /\ dim_cells[2].col = 27 /\ dim_cells[2].row = 1
    /\ dim_out.max_col = 27 /\ dim_out.max_row = 9

\* ======================================================= to_typst: the call
Grid == (1..MaxCol) \X (1..MaxRow)

\* The cells of a grid whose coordinates are each absent, a value or a
\* formula error, in the collection's order (here column by column).
CellsOf(kind) ==
    LET n == MaxCol * MaxRow
        at(k) == <<((k - 1) \div MaxRow) + 1, ((k - 1) % MaxRow) + 1>>
        all == [k \in 1..n |-> MakeCell(at(k)[1], at(k)[2], kind[at(k)] = "error",
                                         FullStyle)]
    IN  SelectSeq(all, LAMBDA cell : kind[<<cell.col, cell.row>>] /= "absent")

Ranges == {m \in [c1 : 1..MaxCol, r1 : 1..MaxRow, c2 : 1..MaxCol, r2 : 1..MaxRow] :
              m.c1 <= m.c2 /\ m.r1 <= m.r2}

Worksheet(kind, merges) ==
    [cells |-> CellsOf(kind), merges |-> merges,
     col_dims |-> <<[num |-> 1, size |-> 30], [num |-> MaxCol + 1, size |-> 12]>>,
     row_dims |-> <<[num |-> MaxRow, size |-> 20]>>,
     default_width |-> 9, default_height |-> 15]

\* What the caller and the libraries may hand to a call.
AnyInputs ==
    [books |-> {[read |-> TRUE, ok |-> FALSE, sheets |-> 0],
                [read |-> TRUE, ok |-> TRUE, sheets |-> 1]},
     indexes |-> {<<"0">>, <<"1">>, <<"x">>},
     toggles |-> [1..4 -> {"true", "false", "yes"}],
     kinds |-> {"absent", "value", "error"},
     merges |-> FewMerges,
     serialized |-> {"ok", "failed"}]

\* Well-formed buffers, the toggles all on or all off, no formula errors.
MergeInputs ==
    [books |-> {[read |-> TRUE, ok |-> TRUE, sheets |-> 1]},
     indexes |-> {<<"0">>},
     toggles |-> {[i \in 1..4 |-> "true"], [i \in 1..4 |-> "false"]},
     kinds |-> {"absent", "value"},
     merges |-> MaxMerges,
     serialized |-> {"ok"}]

PipeInit == PipeStart /\ RefIdle /\ ColorIdle /\ SizeIdle /\ StyleIdle /\ DimIdle

\* return Err(msg), by `?` or by `return`.
Fail(msg) ==
    /\ result' = [kind |-> "err", msg |-> msg, data |-> None]
    /\ pc' = "done"

\* Line 181: reader::xlsx::read_reader(file, true).
ReadWorkbook(inputs) ==
    /\ pc = "read"
    /\ \E b \in inputs.books :
          /\ book' = b
          /\ IF ~b.ok THEN Fail([text |-> "Failed to read Excel file", cell |-> <<>>])
             ELSE pc' = "index" /\ UNCHANGED result
    /\ UNCHANGED <<in_index, in_toggles, sheet_index, toggles, sheet, max_col, max_row,
                   table_data, row_num, serialized>>
    /\ UNCHANGED <<refVars, colorVars, sizeVars, styleVars, dimVars>>

\* Lines 184-187: the sheet index, a usize in decimal text.
ParseSheetIndex(inputs) ==
    /\ pc = "index"
    /\ \E text \in inputs.indexes :
          LET r == parse_u32(text)
          IN  /\ in_index' = text
              /\ IF ~r.ok
                 THEN /\ Fail([text |-> "Failed to parse sheet index", cell |-> <<>>])
                      /\ UNCHANGED sheet_index
                 ELSE /\ sheet_index' = ToInt(r.val)
                      /\ pc' = "toggles"
                      /\ UNCHANGED result
    /\ UNCHANGED <<book, in_toggles, toggles, sheet, max_col, max_row, table_data,
                   row_num, serialized>>
    /\ UNCHANGED <<refVars, colorVars, sizeVars, styleVars, dimVars>>

ToggleNames == <<"parse_alignment", "parse_border", "parse_bg_color", "parse_font_style">>

\* Lines 188-203: the four toggles, decoded in order; the first buffer that
\* is not "true" or "false" ends the call.
ParseToggles(inputs) ==
    /\ pc = "toggles"
    /\ \E texts \in inputs.toggles :
          LET bad == {i \in 1..4 : ~parse_bool(texts[i]).ok}
          IN  /\ in_toggles' = texts
              /\ IF bad /= {}
                 THEN /\ Fail([text |-> "Failed to parse",
                               cell |-> <<ToggleNames[CHOOSE i \in bad :
                                                        \A j \in bad : i <= j]>>])
                      /\ UNCHANGED toggles
                 ELSE /\ toggles' = [alignment |-> parse_bool(texts[1]).val,
                                     border |-> parse_bool(texts[2]).val,
                                     bg_color |-> parse_bool(texts[3]).val,
                                     font_style |-> parse_bool(texts[4]).val]
                      /\ pc' = "sheet"
                      /\ UNCHANGED result
    /\ UNCHANGED <<book, in_index, sheet_index, sheet, max_col, max_row, table_data,
                   row_num, serialized>>
    /\ UNCHANGED <<refVars, colorVars, sizeVars, styleVars, dimVars>>

\* Lines 204-206: book.get_sheet(&sheet_index).
GetSheet(inputs) ==
    /\ pc = "sheet"
    /\ IF sheet_index >= book.sheets
       THEN /\ Fail([text |-> "Failed to get worksheet", cell |-> <<>>])
            /\ UNCHANGED sheet
       ELSE /\ \E kind \in [Grid -> inputs.kinds], merges \in SeqsUpTo(Ranges, inputs.merges) :
                   sheet' = [found |-> TRUE, ws |-> Worksheet(kind, merges)]
            /\ pc' = "dimensions"
            /\ UNCHANGED result
    /\ UNCHANGED <<book, in_index, in_toggles, sheet_index, toggles, max_col, max_row,
                   table_data, row_num, serialized>>
    /\ UNCHANGED <<refVars, colorVars, sizeVars, styleVars, dimVars>>

\* Lines 208-227: the bounding box, the fresh table_data, the size arrays.
Dimensions ==
    /\ pc = "dimensions"
    /\ LET d == get_table_dimensions(sheet.ws.cells)
       IN  IF ~d.ok
           THEN /\ Fail([text |-> d.err, cell |-> <<>>])
                /\ UNCHANGED <<max_col, max_row, table_data>>
           ELSE /\ max_col' = d.max_col
                /\ max_row' = d.max_row
                /\ table_data' =
                       [dimensions |->
                            [columns |-> get_column_widths(sheet.ws.col_dims, d.max_col,
                                                           sheet.ws.default_width),
                             rows |-> get_row_heights(sheet.ws.row_dims, d.max_row,
                                                      sheet.ws.default_height),
                             max_columns |-> Some(d.max_col),
                             max_rows |-> Some(d.max_row)],
                        rows |-> <<>>,
                        merged_cells |-> <<>>]
                /\ pc' = "merges"
                /\ UNCHANGED result
    /\ UNCHANGED <<book, in_index, in_toggles, sheet_index, toggles, sheet, row_num,
                   serialized>>
    /\ UNCHANGED <<refVars, colorVars, sizeVars, styleVars, dimVars>>

\* Lines 230-247: the loop over the merge ranges.
MergedCells ==
    /\ pc = "merges"
    /\ table_data' = [table_data EXCEPT !.merged_cells =
                          [i \in 1..Len(sheet.ws.merges) |->
                              merged_cell(get_range(sheet.ws.merges[i]))]]
    /\ row_num' = 1
    /\ pc' = "rows"
    /\ UNCHANGED <<book, in_index, in_toggles, sheet_index, toggles, sheet, max_col,
                   max_row, serialized, result>>
    /\ UNCHANGED <<refVars, colorVars, sizeVars, styleVars, dimVars>>

\* Lines 249-315: one pass of the row loop.
ProcessRow ==
    /\ pc = "rows"
    /\ LET rd == row_data(sheet.ws.cells, table_data.merged_cells, row_num, max_col,
                          toggles)
       IN  IF ~rd.ok
           THEN /\ Fail(rd.err)
                /\ UNCHANGED <<table_data, row_num>>
           ELSE /\ table_data' = [table_data EXCEPT !.rows =
                                      push_row(table_data.rows, row_num, rd.cells)]
                /\ row_num' = row_num + 1
                /\ pc' = IF row_num = max_row THEN "serialize" ELSE "rows"
                /\ UNCHANGED result
    /\ UNCHANGED <<book, in_index, in_toggles, sheet_index, toggles, sheet, max_col,
                   max_row, serialized>>
    /\ UNCHANGED <<refVars, colorVars, sizeVars, styleVars, dimVars>>

\* Lines 318-322: toml::to_string(&table_data) and the returned buffer.
Serialize(inputs) ==
    /\ pc = "serialize"
    /\ \E outcome \in inputs.serialized :
          /\ serialized' = outcome
          /\ IF outcome = "failed"
             THEN Fail([text |-> "Failed to serialize to TOML", cell |-> <<>>])
             ELSE /\ result' = [kind |-> "ok", msg |-> NoMessage,
                                data |-> Some(table_data)]
                  /\ pc' = "done"
    /\ UNCHANGED <<book, in_index, in_toggles, sheet_index, toggles, sheet, max_col,
                   max_row, table_data, row_num>>
    /\ UNCHANGED <<refVars, colorVars, sizeVars, styleVars, dimVars>>

Next ==
    \/ ReadWorkbook(AnyInputs)
    \/ ParseSheetIndex(AnyInputs)
    \/ ParseToggles(AnyInputs)
    \/ GetSheet(AnyInputs)
    \/ Dimensions
    \/ MergedCells
    \/ ProcessRow
    \/ Serialize(AnyInputs)

Spec == PipeInit /\ [][Next]_vars

MergeNext ==
    \/ ReadWorkbook(MergeInputs)
    \/ ParseSheetIndex(MergeInputs)
    \/ ParseToggles(MergeInputs)
    \/ GetSheet(MergeInputs)
    \/ Dimensions
    \/ MergedCells
    \/ ProcessRow
    \/ Serialize(MergeInputs)

SpecMerge == PipeInit /\ [][MergeNext]_vars

\* ------------------------------------------- to_typst: the worksheet as given
Ws == sheet.ws
CellsAt(c, r) == {Ws.cells[i] : i \in {k \in 1..Len(Ws.cells) :
                                          Ws.cells[k].col = c /\ Ws.cells[k].row = r}}
Occupied(c, r) == CellsAt(c, r) /= {}
Covers(m, c, r) == m.c1 <= c /\ c <= m.c2 /\ m.r1 <= r /\ r <= m.r2

\* Merge-suppressed: inside some merge rectangle and not that rectangle's start.
Suppressed(c, r) ==
    \E i \in 1..Len(Ws.merges) :
        Covers(Ws.merges[i], c, r) /\ <<c, r>> /= <<Ws.merges[i].c1, Ws.merges[i].r1>>

Emitted(rows, c, r) ==
    \E i \in 1..Len(rows) :
        rows[i].row_number = r /\ \E j \in 1..Len(rows[i].cells) : rows[i].cells[j].column = c

\* The row list of the record returned; empty when no record is returned.
OutputRows == IF result.kind = "ok" THEN Unwrap(result.data).rows ELSE <<>>

\* C1: no merge-suppressed coordinate is a cell entry of any row, neither of
\* the record returned nor of the rows assembled so far, occupied or not.
C1_NoSuppressedEntry ==
    \A rows \in {OutputRows, table_data.rows} :
        \A i \in 1..Len(rows) : \A j \in 1..Len(rows[i].cells) :
            ~Suppressed(rows[i].cells[j].column, rows[i].row_number)

\* A record whose row holds an entry while an occupied cell of the same row
\* is suppressed and left out.
C1_Witness ==
    /\ result.kind = "ok"
    /\ \E p \in Grid :
          /\ Occupied(p[1], p[2])
          /\ Suppressed(p[1], p[2])
          /\ ~Emitted(OutputRows, p[1], p[2])
          /\ \E c \in 1..MaxCol : Emitted(OutputRows, c, p[2])

\* C9 as stated: whatever the merge ranges, overlapping ones included, an
\* occupied cell at the start of a merge range is emitted in its row.
C9_AsStated ==
    result.kind = "ok" =>
        \A i \in 1..Len(Ws.merges) :
            Occupied(Ws.merges[i].c1, Ws.merges[i].r1)
                => Emitted(OutputRows, Ws.merges[i].c1, Ws.merges[i].r1)

Overlap(m, n) == \E p \in Grid : Covers(m, p[1], p[2]) /\ Covers(n, p[1], p[2])

\* C9 amended: an occupied cell at the start of a merge range is emitted
\* unless the coordinate also lies inside another merge range that starts
\* elsewhere; so it is always emitted when no two ranges overlap.
C9_AnchorEmitted ==
    result.kind = "ok" =>
        /\ \A i \in 1..Len(Ws.merges) :
              (Occupied(Ws.merges[i].c1, Ws.merges[i].r1)
               /\ ~Suppressed(Ws.merges[i].c1, Ws.merges[i].r1))
                  => Emitted(OutputRows, Ws.merges[i].c1, Ws.merges[i].r1)
        /\ (\A i, j \in 1..Len(Ws.merges) :
                i /= j => ~Overlap(Ws.merges[i], Ws.merges[j]))
              => \A i \in 1..Len(Ws.merges) :
                    Occupied(Ws.merges[i].c1, Ws.merges[i].r1)
                        => Emitted(OutputRows, Ws.merges[i].c1, Ws.merges[i].r1)

\* Two disjoint ranges of two cells each, both anchors occupied and emitted.
C9_Witness ==
    /\ result.kind = "ok"
    /\ Len(Ws.merges) = 2
    /\ ~Overlap(Ws.merges[1], Ws.merges[2])
    /\ \A i \in 1..2 :
          /\ <<Ws.merges[i].c1, Ws.merges[i].r1>> /= <<Ws.merges[i].c2, Ws.merges[i].r2>>
          /\ Occupied(Ws.merges[i].c1, Ws.merges[i].r1)
          /\ Emitted(OutputRows, Ws.merges[i].c1, Ws.merges[i].r1)

\* C10: row r is in the row list iff it has an occupied, unsuppressed cell;
\* rows are in strictly increasing row_number order and non-empty; within a
\* row the cells are in strictly increasing column order, inside 1..max_col.
C10_RowList ==
    result.kind = "ok" =>
        LET rows == OutputRows
        IN  /\ \A r \in 1..MaxRow :
                  (\E i \in 1..Len(rows) : rows[i].row_number = r)
                      <=> (\E c \in 1..MaxCol : Occupied(c, r) /\ ~Suppressed(c, r))
            /\ \A i \in 1..Len(rows) :
                  /\ rows[i].row_number \in 1..max_row
                  /\ Len(rows[i].cells) > 0
                  /\ \A j \in 1..Len(rows[i].cells) :
                        /\ rows[i].cells[j].column \in 1..max_col
                        /\ Occupied(rows[i].cells[j].column, rows[i].row_number)
                  /\ \A j \in 1..(Len(rows[i].cells) - 1) :
                        rows[i].cells[j].column < rows[i].cells[j + 1].column
            /\ \A i \in 1..(Len(rows) - 1) : rows[i].row_number < rows[i + 1].row_number

\* An occupied row left out because all its cells are suppressed, after a row
\* that is emitted.
C10_Witness ==
    /\ result.kind = "ok"
    /\ Len(OutputRows) > 0
    /\ \E r \in 2..max_row :
          /\ \E c \in 1..MaxCol : Occupied(c, r)
          /\ \A i \in 1..Len(OutputRows) : OutputRows[i].row_number < r

\* ---------------------------------------------------- to_typst: the failures
ErrorCells == {p \in Grid : \E cell \in CellsAt(p[1], p[2]) : cell.raw_error}
LiveErrorCells == {p \in ErrorCells : ~Suppressed(p[1], p[2])}
RowMajorFirst(S) ==
    CHOOSE p \in S : \A q \in S : p[2] < q[2] \/ (p[2] = q[2] /\ p[1] <= q[1])

\* C3 as stated: when any cell of the worksheet holds a formula error, wherever
\* it lies, the call fails with a message naming such a cell, and no record.
C3_AsStated ==
    (pc = "done" /\ sheet.found /\ ErrorCells /= {}) =>
        /\ result.kind = "err"
        /\ result.data = None
        /\ result.msg.text = "Error in cell"
        /\ \E p \in ErrorCells : result.msg.cell = CoordinateText(p[1], p[2])

\* C3 amended: when a cell that is not merge-suppressed holds a formula error,
\* the call fails, under every combination of the toggles, with no record and
\* a message naming the first such cell in row-major order; a formula error at
\* a merge-suppressed coordinate is never read and fails nothing.
C3_CellValueError ==
    (pc = "done" /\ sheet.found) =>
        IF LiveErrorCells /= {}
        THEN result = [kind |-> "err",
                       msg |-> [text |-> "Error in cell",
                                cell |-> CoordinateText(RowMajorFirst(LiveErrorCells)[1],
                                                        RowMajorFirst(LiveErrorCells)[2])],
                       data |-> None]
        ELSE result.msg.text /= "Error in cell"

\* Border parsing alone switched on; a formula error hidden by a merge range
\* and a later one that is not: the call names the later one.
C3_Witness ==
    /\ pc = "done"
    /\ toggles = [alignment |-> FALSE, border |-> TRUE, bg_color |-> FALSE,
                  font_style |-> FALSE]
    /\ ErrorCells \ LiveErrorCells /= {}
    /\ LiveErrorCells /= {}
    /\ result.msg.text = "Error in cell"

\* The first stage that fails, from what the call was handed.
Fault ==
    IF ~book.ok THEN "book"
    ELSE IF Len(in_index) = 0 \/ ~IsDigitRun(in_index) THEN "index"
    ELSE IF \E i \in 1..4 : in_toggles[i] \notin {"true", "false"} THEN "toggles"
    ELSE IF ToInt(DecimalValue(in_index)) >= book.sheets THEN "sheet"
    ELSE IF Len(Ws.cells) = 0 THEN "empty"
    ELSE IF LiveErrorCells /= {} THEN "cell"
    ELSE IF serialized = "failed" THEN "serialize"
    ELSE "none"

FaultText ==
    [book |-> "Failed to read Excel file",
     index |-> "Failed to parse sheet index",
     toggles |-> "Failed to parse",
     sheet |-> "Failed to get worksheet",
     empty |-> "No data found in the worksheet",
     cell |-> "Error in cell",
     serialize |-> "Failed to serialize to TOML"]

\* C8: nothing is returned before the call ends; it ends with the complete
\* record and no message when no stage fails, and otherwise with the failing
\* stage's message alone: none of the dimensions or rows built so far.
C8_NoPartialResult ==
    /\ pc /= "done" => result = [kind |-> "none", msg |-> NoMessage, data |-> None]
    /\ pc = "done" =>
          IF Fault = "none"
          THEN /\ result = [kind |-> "ok", msg |-> NoMessage, data |-> Some(table_data)]
               /\ Len(table_data.dimensions.columns) = max_col
               /\ Len(table_data.dimensions.rows) = max_row
               /\ Len(table_data.merged_cells) = Len(Ws.merges)
               /\ \A p \in Grid :
                     (Occupied(p[1], p[2]) /\ ~Suppressed(p[1], p[2]))
                         => Emitted(table_data.rows, p[1], p[2])
          ELSE /\ result.kind = "err"
               /\ result.msg.text = FaultText[Fault]
               /\ result.data = None

\* A formula error met in a later row: the rows assembled before it are not
\* returned.
C8_Witness ==
    /\ pc = "done"
    /\ Fault = "cell"
    /\ Len(table_data.rows) > 0
    /\ result.kind = "err"
    /\ result.data = None

====
